---------------------------- MODULE Spec2Model ----------------------------
(***************************************************************************)
(* A model of the slurp crate (src/src/lib.rs): whole-file readers and     *)
(* writers over a small filesystem, and the lazy line iterator `Lines`.    *)
(*                                                                         *)
(* Text is a sequence of code points, a file is a sequence of bytes; the   *)
(* two are related by UTF-8 (as_bytes / read_to_string), computed here for *)
(* the one- and two-byte ranges.                                           *)
(***************************************************************************)
EXTENDS Integers, Sequences, FiniteSets, TLC

\* ------------------------------------------------------------------ bounds
MaxTextLen == 2
MaxFileLen == 3
MaxLines == 2
MaxInitLen == 1
MaxCalls == 4
MaxAppends == 2

\* ---------------------------------------------------------------- alphabet
\* LF is the terminator writeln! emits; io::Lines removes it, with a CR before
\* it. 97 is 'a' (one byte), 233 is U+00E9 (two bytes, 195 169).
LF == 10
CR == 13

Chars == {97, 233, LF, CR}
\* Payloads of the text writers are drawn over TextChars.
TextChars == {97, 233}
Paths == {"p"}

SeqsUpTo(S, n) == UNION {[1..k -> S] : k \in 0..n}

RECURSIVE Concat(_)
Concat(ss) == IF ss = <<>> THEN <<>> ELSE Head(ss) \o Concat(Tail(ss))

Prefix(s, k) == SubSeq(s, 1, k)
Suffix(s, k) == SubSeq(s, k + 1, Len(s))

\* ------------------------------------------------------------------- UTF-8
\* str::as_bytes: the UTF-8 encoding of a code point (below U+0800).
Utf8(c) == IF c < 128 THEN <<c>> ELSE <<192 + (c \div 64), 128 + (c % 64)>>

RECURSIVE as_bytes(_)
as_bytes(text) ==
    IF text = <<>> THEN <<>> ELSE Utf8(Head(text)) \o as_bytes(Tail(text))

Bytes == UNION {{Utf8(c)[i] : i \in 1..Len(Utf8(c))} : c \in Chars}

\* String::from_utf8 as read_to_string and read_line apply it: the decoded
\* text, or invalid when some byte starts no well-formed sequence.
RECURSIVE from_utf8(_)
from_utf8(bytes) ==
    IF bytes = <<>> THEN [valid |-> TRUE, text |-> <<>>]
    ELSE LET b == Head(bytes) IN
         IF b < 128
         THEN LET r == from_utf8(Tail(bytes)) IN
              [valid |-> r.valid, text |-> IF r.valid THEN <<b>> \o r.text ELSE <<>>]
         ELSE IF /\ b >= 194 /\ b <= 223 /\ Len(bytes) >= 2
                 /\ bytes[2] >= 128 /\ bytes[2] <= 191
         THEN LET r == from_utf8(Tail(Tail(bytes))) IN
              [valid |-> r.valid,
               text |-> IF r.valid
                        THEN <<(b - 192) * 64 + (bytes[2] - 128)>> \o r.text
                        ELSE <<>>]
         ELSE [valid |-> FALSE, text |-> <<>>]

\* ----------------------------------------------------------------- results
Ok(v) == [ok |-> TRUE, val |-> v, err |-> "none"]
Err(e) == [ok |-> FALSE, val |-> <<>>, err |-> e]

\* ------------------------------------------------------------------- state
\* fs: the filesystem; prod: the caller's Lines value; obs: what the caller
\* has observed of it; last: the last library call; payloads: the texts
\* written since the last successful write_all_text.
VARIABLES fs, last, payloads, prod, obs

vars == <<fs, last, payloads, prod, obs>>

NoFile == [exists |-> FALSE, data |-> <<>>]
FileOf(data) == [exists |-> TRUE, data |-> data]

\* An injected fault: at = 0 none, at = -1 the open fails, at = n > 0 the
\* n-th write (line, or read) fails after k bytes went out.
NoFault == [at |-> 0, k |-> 0]
OpenFault == [at |-> -1, k |-> 0]
FaultAt(n, k) == [at |-> n, k |-> k]

\* The record of the last library call: its name, arguments, injected
\* fault, the target before the call (where a claim refers to it), what it
\* returned, and for
\* read_all_lines the next calls and open attempts it made.
Call(op, text, lines, fault, prior, res, calls, opens, prevOp, prevOk) ==
    [op |-> op, text |-> text, lines |-> lines, fault |-> fault,
     prior |-> prior, res |-> res, calls |-> calls, opens |-> opens,
     prevOp |-> prevOp, prevOk |-> prevOk]

NoCall == Call("none", <<>>, <<>>, NoFault, NoFile, Ok(<<>>), 0, 0, "none", FALSE)
NoPayloads == [valid |-> FALSE, text |-> <<>>, appends |-> 0]

\* ------------------------------------------------------------ File writes
\* (mutant) a create that opens without truncating.
FileCreateKeeps(f) == FileOf(f.data)

\* File::create: the target exists and is empty.
FileCreate(f) == FileOf(<<>>)

\* (mutant) an append-mode open that truncates.
OpenAppendTruncates(f) == FileOf(<<>>)

\* OpenOptions::new().create(true).append(true).open: the target exists with
\* its content kept; every write lands at the end.
OpenAppend(f) == FileOf(f.data)

\* Write::write_all on a File: all of buf is written, or the call fails after
\* the first k bytes went out (k < Len(buf)).
WriteAll(f, buf, k) ==
    IF k >= Len(buf) THEN FileOf(f.data \o buf)
    ELSE FileOf(f.data \o Prefix(buf, k))

WriteFaults(bytes) ==
    {NoFault, OpenFault} \cup {FaultAt(1, k) : k \in 0..(Len(bytes) - 1)}

\* write_all_bytes(filename, bytes)
write_all_bytes(f, bytes, fault) ==
    IF fault.at = -1 THEN [file |-> f, res |-> Err("open")]
    ELSE LET file == FileCreate(f) IN
         IF fault.at = 1
         THEN [file |-> WriteAll(file, bytes, fault.k), res |-> Err("write")]
         ELSE [file |-> WriteAll(file, bytes, Len(bytes)), res |-> Ok(<<>>)]

\* append_all_bytes(filename, bytes)
append_all_bytes(f, bytes, fault) ==
    IF fault.at = -1 THEN [file |-> f, res |-> Err("open")]
    ELSE LET file == OpenAppend(f) IN
         IF fault.at = 1
         THEN [file |-> WriteAll(file, bytes, fault.k), res |-> Err("write")]
         ELSE [file |-> WriteAll(file, bytes, Len(bytes)), res |-> Ok(<<>>)]

\* (mutant) write! in place of writeln!: no terminator goes out.
WritelnNoTerminator(f, line, k) == WriteAll(f, as_bytes(line), k)

\* writeln!(&mut file, "{}", line): the line and then the terminator go out
\* through write_all; a failure leaves the first k bytes of the two.
Writeln(f, line, k) == WriteAll(f, as_bytes(line) \o <<LF>>, k)

\* The loop of write_all_lines over lines[i..]: `?` returns at the failing
\* writeln!, the lines before it are in the file.
RECURSIVE WriteLines(_, _, _, _)
WriteLines(file, lines, i, fault) ==
    IF i > Len(lines) THEN [file |-> file, res |-> Ok(<<>>)]
    ELSE IF fault.at = i
    THEN [file |-> Writeln(file, lines[i], fault.k), res |-> Err("write")]
    ELSE WriteLines(Writeln(file, lines[i], Len(as_bytes(lines[i])) + 1),
                    lines, i + 1, fault)

LineFaults(lines) ==
    {NoFault, OpenFault} \cup
    UNION {{FaultAt(n, k) : k \in 0..Len(as_bytes(lines[n]))} : n \in 1..Len(lines)}

\* write_all_lines(filename, lines)
write_all_lines(f, lines, fault) ==
    IF fault.at = -1 THEN [file |-> f, res |-> Err("open")]
    ELSE WriteLines(FileCreate(f), lines, 1, fault)

\* ------------------------------------------------------------- File reads
\* read_all_to_string(filename); fault.at = 1 is a device error while reading.
read_all_to_string(f, fault) ==
    IF ~f.exists THEN Err("NotFound")
    ELSE IF fault.at = 1 THEN Err("io")
    ELSE LET d == from_utf8(f.data) IN
         IF d.valid THEN Ok(d.text) ELSE Err("InvalidData")

\* ------------------------------------------------------------------ Lines
\* Lines { filename, iter }: iter = None is "None"; Some(io::Lines) carries the
\* BufReader's unread buffer and the file offset of the handle.
NoLines == [alive |-> FALSE, filename |-> "p", iter |-> "None", buf |-> <<>>, pos |-> 0]

\* (mutant) a constructor that opens the file eagerly.
iterate_all_lines_eager(filename) ==
    [alive |-> TRUE, filename |-> filename, iter |-> "Some", buf |-> <<>>, pos |-> 0]

\* iterate_all_lines(filename): the value it returns.
iterate_all_lines(filename) ==
    [alive |-> TRUE, filename |-> filename, iter |-> "None", buf |-> <<>>, pos |-> 0]

FirstLF(s) == CHOOSE i \in 1..Len(s) : s[i] = LF /\ \A j \in 1..(i - 1) : s[j] # LF
HasLF(s) == \E i \in 1..Len(s) : s[i] = LF

\* BufRead::read_until(b'\n'): fill_buf refills an empty buffer from the file
\* at the handle's offset (the buffer is larger than any file of the model);
\* bytes are taken up to and including the first LF, or to end of input.
RECURSIVE ReadUntil(_, _, _, _)
ReadUntil(acc, buf, pos, data) ==
    LET avail == IF buf # <<>> THEN buf
                 ELSE IF pos < Len(data) THEN Suffix(data, pos) ELSE <<>>
        pos1 == IF buf # <<>> THEN pos ELSE pos + Len(avail)
    IN IF avail = <<>> THEN [line |-> acc, buf |-> <<>>, pos |-> pos1]
       ELSE IF HasLF(avail)
       THEN [line |-> acc \o Prefix(avail, FirstLF(avail)),
             buf |-> Suffix(avail, FirstLF(avail)), pos |-> pos1]
       ELSE ReadUntil(acc \o avail, <<>>, pos1, data)

\* (mutant) the line is returned with its terminator.
StripEolKeeps(text) == text

\* The trailing "\n", and a "\r" before it, are removed from a line read.
StripEol(text) ==
    IF text # <<>> /\ text[Len(text)] = LF
    THEN LET t == Prefix(text, Len(text) - 1) IN
         IF t # <<>> /\ t[Len(t)] = CR THEN Prefix(t, Len(t) - 1) ELSE t
    ELSE text

\* (mutant) a reader that returns the line without consuming it.
IoLinesNextNoAdvance(l, data, ioerr) ==
    LET r == ReadUntil(<<>>, l.buf, l.pos, data)
        d == from_utf8(r.line)
    IN IF r.line = <<>> THEN [lines |-> l, item |-> "None", res |-> Ok(<<>>)]
       ELSE IF ~d.valid THEN [lines |-> l, item |-> "Some", res |-> Err("InvalidData")]
       ELSE [lines |-> l, item |-> "Some", res |-> Ok(d.text)]

\* io::Lines::next on the open handle: None at end of input, else the line
\* without its terminator, or the error of the read.
IoLinesNext(l, data, ioerr) ==
    IF ioerr THEN [lines |-> l, item |-> "Some", res |-> Err("io")]
    ELSE LET r == ReadUntil(<<>>, l.buf, l.pos, data)
             l1 == [l EXCEPT !.buf = r.buf, !.pos = r.pos]
             d == from_utf8(r.line)
         IN IF r.line = <<>> THEN [lines |-> l1, item |-> "None", res |-> Ok(<<>>)]
            ELSE IF ~d.valid THEN [lines |-> l1, item |-> "Some", res |-> Err("InvalidData")]
            ELSE [lines |-> l1, item |-> "Some", res |-> Ok(StripEol(d.text))]

\* The arm `Ok(f) => self.iter = Some(io::BufReader::new(f).lines())`.
StoreIter(l) == [l EXCEPT !.iter = "Some", !.buf = <<>>, !.pos = 0]

\* Lines::next: the value after the call, the item, and the open attempts
\* (tried) and successful opens (opened) the call made.
LinesNext(l, f, ioerr) ==
    IF l.iter = "None"
    THEN IF ~f.exists
         THEN [lines |-> l, item |-> "Some", res |-> Err("NotFound"),
               tried |-> 1, opened |-> 0]
         ELSE LET l1 == StoreIter(l)
                  r == IF l1.iter = "Some" THEN IoLinesNext(l1, f.data, ioerr)
                       ELSE [lines |-> l1, item |-> "None", res |-> Ok(<<>>)]
              IN [lines |-> r.lines, item |-> r.item, res |-> r.res,
                  tried |-> 1, opened |-> 1]
    ELSE LET r == IoLinesNext(l, f.data, ioerr)
         IN [lines |-> r.lines, item |-> r.item, res |-> r.res,
             tried |-> 0, opened |-> 0]

\* Dropping a Lines value closes the handle its iter holds.
DropHandles(l) == IF l.iter = "Some" THEN 1 ELSE 0

CollectFuel == MaxFileLen + MaxLines + MaxInitLen + 4

\* (mutant) a collect that skips failed items and keeps the lines.
RECURSIVE CollectSkipsErrors(_, _, _, _, _, _)
CollectSkipsErrors(l, f, faultAt, n, acc, opens) ==
    IF n >= CollectFuel
    THEN [res |-> Err("diverged"), calls |-> n, opens |-> opens]
    ELSE LET r == LinesNext(l, f, faultAt = n + 1) IN
         IF r.item = "None"
         THEN [res |-> Ok(acc), calls |-> n + 1, opens |-> opens + r.tried]
         ELSE CollectSkipsErrors(r.lines, f, faultAt, n + 1,
                                 IF r.res.ok THEN Append(acc, r.res.val) ELSE acc,
                                 opens + r.tried)

\* `.collect()` into io::Result<Vec<String>>: next is called until it returns
\* None or an Err; an Err is returned alone. n counts the calls made so far
\* (a run of CollectFuel calls is reported as "diverged").
RECURSIVE Collect(_, _, _, _, _, _)
Collect(l, f, faultAt, n, acc, opens) ==
    IF n >= CollectFuel
    THEN [res |-> Err("diverged"), calls |-> n, opens |-> opens]
    ELSE LET r == LinesNext(l, f, faultAt = n + 1) IN
         IF r.item = "None"
         THEN [res |-> Ok(acc), calls |-> n + 1, opens |-> opens + r.tried]
         ELSE IF r.res.ok
         THEN Collect(r.lines, f, faultAt, n + 1, Append(acc, r.res.val),
                      opens + r.tried)
         ELSE [res |-> Err(r.res.err), calls |-> n + 1, opens |-> opens + r.tried]

\* read_all_lines(filename)
read_all_lines(f, faultAt) ==
    Collect(iterate_all_lines("p"), f, faultAt, 0, <<>>, 0)

\* ----------------------------------------------------------------- actions
write_all_text_call(p, text, fault) ==
    LET r == write_all_bytes(fs[p], as_bytes(text), fault) IN
    /\ fs' = [fs EXCEPT ![p] = r.file]
    /\ last' = Call("write_all_text", text, <<>>, fault, fs[p], r.res, 0, 0,
                    "none", FALSE)
    /\ payloads' = IF r.res.ok THEN [valid |-> TRUE, text |-> text, appends |-> 0]
                   ELSE NoPayloads
    /\ UNCHANGED <<prod, obs>>

append_all_text_call(p, text, fault) ==
    LET r == append_all_bytes(fs[p], as_bytes(text), fault) IN
    /\ Len(fs[p].data) + Len(as_bytes(text)) <= MaxFileLen
    /\ fs' = [fs EXCEPT ![p] = r.file]
    /\ last' = Call("append_all_text", text, <<>>, fault, fs[p], r.res, 0, 0,
                    "none", FALSE)
    /\ payloads' = IF r.res.ok /\ payloads.valid
                   THEN [valid |-> TRUE, text |-> payloads.text \o text,
                         appends |-> IF payloads.appends < MaxAppends
                                     THEN payloads.appends + 1
                                     ELSE payloads.appends]
                   ELSE NoPayloads
    /\ UNCHANGED <<prod, obs>>

read_all_to_string_call(p, fault) ==
    /\ last.op # "read_all_to_string"
    /\ last' = Call("read_all_to_string", last.text, <<>>, fault, fs[p],
                    read_all_to_string(fs[p], fault), 0, 0, last.op, last.res.ok)
    /\ UNCHANGED <<fs, payloads, prod, obs>>

write_all_lines_call(p, lines, fault) ==
    LET r == write_all_lines(fs[p], lines, fault) IN
    /\ fs' = [fs EXCEPT ![p] = r.file]
    /\ last' = Call("write_all_lines", <<>>,
                    IF fault.at = -1 THEN <<>> ELSE lines,
                    fault, NoFile, r.res, 0, 0, "none", FALSE)
    /\ payloads' = NoPayloads
    /\ UNCHANGED <<prod, obs>>

read_all_lines_call(p, faultAt) ==
    LET r == read_all_lines(fs[p], faultAt) IN
    /\ last.op # "read_all_lines"
    /\ last' = Call("read_all_lines", <<>>, last.lines, FaultAt(faultAt, 0), fs[p],
                    r.res, r.calls, r.opens, last.op, last.res.ok)
    /\ UNCHANGED <<fs, payloads, prod, obs>>

NoObs == [calls |-> 0, opens |-> 0, opened |-> 0, handles |-> 0, item |-> "none",
          res |-> Ok(<<>>), sawNone |-> FALSE, openErr |-> FALSE]

iterate_all_lines_call(p) ==
    /\ ~prod.alive
    /\ prod' = iterate_all_lines(p)
    /\ obs' = NoObs
    /\ last' = Call("iterate_all_lines", <<>>, <<>>, NoFault, fs[p], Ok(<<>>), 0, 0,
                    "none", FALSE)
    /\ UNCHANGED <<fs, payloads>>

next_call(ioerr) ==
    LET r == LinesNext(prod, fs[prod.filename], ioerr) IN
    /\ prod.alive
    /\ obs.calls < MaxCalls
    /\ prod' = r.lines
    /\ obs' = [calls |-> obs.calls + 1,
               opens |-> obs.opens + r.tried,
               opened |-> obs.opened + r.opened,
               handles |-> obs.handles + r.opened,
               item |-> r.item,
               res |-> r.res,
               sawNone |-> obs.sawNone \/ r.item = "None",
               openErr |-> obs.openErr \/ (obs.calls = 0 /\ r.tried = 1 /\ r.opened = 0)]
    /\ UNCHANGED <<fs, last, payloads>>

drop_call ==
    /\ prod.alive
    /\ prod' = NoLines
    /\ obs' = [obs EXCEPT !.handles = obs.handles - DropHandles(prod)]
    /\ UNCHANGED <<fs, last, payloads>>

\* ---------------------------------------------------------- specifications
Texts == SeqsUpTo(TextChars, MaxTextLen)
\* The lines offered to write_all_lines: empty, a carriage return before a
\* two-byte character, a carriage return at the end, an embedded line feed.
LineTexts == {<<>>, <<CR, 233>>, <<97, CR>>, <<LF>>}
LineSeqs == SeqsUpTo(LineTexts, MaxLines)
IterTexts == {<<97>>, <<233>>, <<LF>>}

Init ==
    /\ fs \in [Paths -> {NoFile} \cup {FileOf(d) : d \in SeqsUpTo(Bytes, MaxInitLen)}]
    /\ last = NoCall
    /\ payloads = NoPayloads
    /\ prod = NoLines
    /\ obs = NoObs

NextText ==
    \/ \E p \in Paths, t \in Texts : \E f \in WriteFaults(as_bytes(t)) :
          write_all_text_call(p, t, f)
    \/ \E p \in Paths, t \in Texts : \E f \in WriteFaults(as_bytes(t)) :
          append_all_text_call(p, t, f)
    \/ \E p \in Paths, f \in {NoFault, FaultAt(1, 0)} : read_all_to_string_call(p, f)

NextLines ==
    \/ \E p \in Paths, ls \in LineSeqs : \E f \in LineFaults(ls) :
          write_all_lines_call(p, ls, f)
    \/ \E p \in Paths, n \in 0..(MaxLines + 1) : read_all_lines_call(p, n)

NextIter ==
    \/ \E p \in Paths : iterate_all_lines_call(p)
    \/ \E e \in BOOLEAN : next_call(e)
    \/ drop_call
    \/ \E p \in Paths, t \in IterTexts : \E f \in WriteFaults(as_bytes(t)) :
          append_all_text_call(p, t, f)

Next == NextText \/ NextLines \/ NextIter

Spec == Init /\ [][Next]_vars
SpecText == Init /\ [][NextText]_vars
SpecLines == Init /\ [][NextLines]_vars
SpecIter == Init /\ [][NextIter]_vars



\* ------------------------------------------------------------------ claims
ThePath == CHOOSE p \in Paths : TRUE
PriorData == IF last.prior.exists THEN last.prior.data ELSE <<>>

\* C3: a successful write_all_text(p, T) leaves the target holding exactly
\* the bytes of T, whatever it held before, and a read_all_to_string(p) that
\* follows it (with no device error) returns T.
C3_WriteReadRoundTrip ==
    /\ (last.op = "write_all_text" /\ last.res.ok)
          => fs[ThePath] = FileOf(as_bytes(last.text))
    /\ (/\ last.op = "read_all_to_string" /\ last.fault.at = 0
        /\ last.prevOp = "write_all_text" /\ last.prevOk)
          => last.res = Ok(last.text)

C3_Witness ==
    /\ last.op = "read_all_to_string" /\ last.fault.at = 0
    /\ last.prevOp = "write_all_text" /\ last.prevOk
    /\ last.text = <<233, 97>>
    /\ last.res = Ok(<<233, 97>>)

\* C4: a successful append_all_text(p, T) leaves the target holding its prior
\* content (empty when absent) followed by the bytes of T; and after one
\* successful write_all_text and k successful appends the target reads back
\* as the payloads concatenated in call order.
C4_AppendConcatenates ==
    /\ (last.op = "append_all_text" /\ last.res.ok)
          => fs[ThePath] = FileOf(PriorData \o as_bytes(last.text))
    /\ payloads.valid
          => read_all_to_string(fs[ThePath], NoFault) = Ok(payloads.text)
    /\ (/\ last.op = "read_all_to_string" /\ last.fault.at = 0 /\ payloads.valid)
          => last.res = Ok(payloads.text)

C4_Witness ==
    /\ last.op = "read_all_to_string" /\ last.fault.at = 0
    /\ payloads.valid /\ payloads.appends = 2
    /\ Len(payloads.text) = 3
    /\ last.res = Ok(payloads.text)

LinesBytes(ls) == Concat([i \in 1..Len(ls) |-> as_bytes(ls[i]) \o <<LF>>])
NoEmbeddedTerminator(ls) == \A i \in 1..Len(ls) : ~HasLF(ls[i])
NoTrailingCR(ls) ==
    \A i \in 1..Len(ls) : ls[i] = <<>> \/ ls[i][Len(ls[i])] # CR
ReadAfterLinesWritten ==
    /\ last.op = "read_all_lines" /\ last.fault.at = 0
    /\ last.prevOp = "write_all_lines" /\ last.prevOk

\* C5 as stated: write_all_lines(p, L) then read_all_lines(p) returns L for
\* every L whose elements hold no line feed, elements ending in a carriage
\* return included.
C5_LinesRoundTrip_Original ==
    (ReadAfterLinesWritten /\ NoEmbeddedTerminator(last.lines))
       => last.res = Ok(last.lines)

\* C5 amended: write_all_lines(p, L) then read_all_lines(p) returns L, in
\* order and count, for every L whose elements hold no line feed and do not
\* end in a carriage return.
C5_LinesRoundTrip ==
    (ReadAfterLinesWritten /\ NoEmbeddedTerminator(last.lines) /\ NoTrailingCR(last.lines))
       => last.res = Ok(last.lines)

C5_Witness ==
    /\ ReadAfterLinesWritten
    /\ last.lines = << <<>>, <<CR, 233>> >>
    /\ last.res = Ok(last.lines)

\* C6 as stated: when write_all_lines fails while writing line N, the target
\* holds exactly the first N-1 lines with their terminators.
C6_PartialWrite_Original ==
    (last.op = "write_all_lines" /\ last.fault.at >= 1)
       => /\ ~last.res.ok
          /\ fs[ThePath] = FileOf(LinesBytes(Prefix(last.lines, last.fault.at - 1)))

\* C6 amended: when write_all_lines fails while writing line N, it returns
\* the error and the target holds the first N-1 lines with their
\* terminators, followed by a possibly empty prefix of line N's bytes
\* without its terminator; no later line and no prior content is there.
C6_PartialWrite ==
    (last.op = "write_all_lines" /\ last.fault.at >= 1)
       => /\ ~last.res.ok
          /\ \E k \in 0..Len(as_bytes(last.lines[last.fault.at])) :
                fs[ThePath] =
                    FileOf(LinesBytes(Prefix(last.lines, last.fault.at - 1))
                           \o Prefix(as_bytes(last.lines[last.fault.at]), k))

C6_Witness ==
    /\ last.op = "write_all_lines" /\ last.fault = FaultAt(2, 2)
    /\ last.lines = << <<CR, 233>>, <<CR, 233>> >>
    /\ fs[ThePath] = FileOf(<<CR, 195, 169, LF, CR, 195>>)

\* The items a caller draws from a fresh producer until its first None.
RECURSIVE Drain(_, _, _, _)
Drain(l, f, faultAt, n) ==
    IF n >= CollectFuel THEN <<>>
    ELSE LET r == LinesNext(l, f, faultAt = n + 1) IN
         IF r.item = "None" THEN <<>>
         ELSE <<r.res>> \o Drain(r.lines, f, faultAt, n + 1)

Drained == Drain(iterate_all_lines(ThePath), last.prior, last.fault.at, 0)
FirstErr(items) ==
    CHOOSE e \in 1..Len(items) :
        ~items[e].ok /\ \A j \in 1..(e - 1) : items[j].ok

\* C7: read_all_lines returns the producer's items in order when all are
\* successes; at the producer's first error it returns that error alone,
\* having asked for no item after it.
C7_CollectFailsFast ==
    last.op = "read_all_lines" =>
       IF \A i \in 1..Len(Drained) : Drained[i].ok
       THEN /\ last.res = Ok([i \in 1..Len(Drained) |-> Drained[i].val])
            /\ last.calls = Len(Drained) + 1
       ELSE /\ last.res = Err(Drained[FirstErr(Drained)].err)
            /\ last.calls = FirstErr(Drained)

C7_Witness ==
    /\ last.op = "read_all_lines"
    /\ last.prior = FileOf(<<CR, 195, 169, LF, CR, 195>>)
    /\ last.fault.at = 0
    /\ last.res = Err("InvalidData")
    /\ last.calls = 2

\* The lines of a file: one per line feed, and one more for a last line
\* that has none.
RECURSIVE CountLF(_)
CountLF(d) == IF d = <<>> THEN 0
              ELSE (IF Head(d) = LF THEN 1 ELSE 0) + CountLF(Tail(d))
NumLines(d) == CountLF(d) + (IF d # <<>> /\ d[Len(d)] # LF THEN 1 ELSE 0)

\* C10: read_all_lines returns: after one open attempt and one next call with
\* the open error when the target is absent, and after one open and at most
\* (number of lines + 1) next calls otherwise.
C10_ReadAllLinesTerminates ==
    last.op = "read_all_lines" =>
       /\ last.res.err # "diverged"
       /\ last.opens = 1
       /\ ~last.prior.exists => (last.calls = 1 /\ last.res = Err("NotFound"))
       /\ last.prior.exists => last.calls <= NumLines(last.prior.data) + 1

C10_Witness ==
    /\ last.op = "read_all_lines"
    /\ last.prior.exists /\ NumLines(last.prior.data) = 2
    /\ last.calls = 3 /\ last.res.ok

\* C1 as stated: when the open of the first next call fails, every later
\* next call returns None and the open is not attempted again.
C1_OpenErrorIsFinal ==
    (prod.alive /\ obs.openErr /\ obs.calls >= 2)
       => (obs.item = "None" /\ obs.opens = 1)

\* C2: iterate_all_lines touches no file and cannot fail: the value it
\* returns holds no handle and no open was attempted, also for an absent
\* target; the open is attempted by the first next call.
C2_ConstructionIsLazy ==
    /\ (prod.alive /\ obs.calls = 0)
          => (prod.iter = "None" /\ obs.opens = 0 /\ obs.handles = 0)
    /\ (last.op = "iterate_all_lines" /\ prod.alive)
          => (last.res.ok /\ fs[ThePath] = last.prior)
    /\ (prod.alive /\ obs.calls = 1)
          => /\ obs.opens = 1
             /\ obs.openErr <=> (obs.item = "Some" /\ obs.res = Err("NotFound"))
             /\ obs.openErr <=> prod.iter = "None"

C2_Witness ==
    /\ last.op = "iterate_all_lines" /\ prod.alive
    /\ ~fs[ThePath].exists
    /\ obs.calls = 0 /\ obs.opens = 0 /\ prod.iter = "None"

\* C8 as stated: once a producer has returned None, every later next call
\* returns None (a device error of the read aside).
C8_ExhaustedIsAbsorbing ==
    [][(/\ prod.alive /\ obs.sawNone
        /\ obs'.calls = obs.calls + 1
        /\ obs'.res.err # "io")
          => obs'.item = "None"]_vars

\* C9 as stated: a producer holds at most one handle, opens at most once
\* after a successful open, and holds no handle once it has returned None or
\* has been dropped.
C9_HandleReleased ==
    /\ obs.handles <= 1
    /\ obs.opened <= 1
    /\ ~prod.alive => obs.handles = 0
    /\ (prod.alive /\ obs.sawNone) => obs.handles = 0

=============================================================================
